---- MODULE Spec2Model ----
(***************************************************************************)
(* Controme integration for Home Assistant.                                *)
(*                                                                         *)
(* Part 1: the setup wizard, custom_components/controme/config_flow.py     *)
(*         (class ContromeConfigFlow).                                     *)
(* Part 2: the climate adapter, custom_components/controme/climate.py      *)
(*         (class ContromeClimate, async_set_temperature).                 *)
(*                                                                         *)
(* Each part has its own specification (WizardSpec, UrlSpec, ClimateSpec); *)
(* the variables of the other parts stay at rest in it.                    *)
(*                                                                         *)
(* The host (Home Assistant's flow manager) calls async_step_user(None)    *)
(* once per flow and afterwards the step named by the form shown last.  A  *)
(* handler suspended in the network scan leaves that form in place, so the *)
(* host may call the same step again before the scan is over.              *)
(*                                                                         *)
(* Strings the code inspects character by character (the URL) are          *)
(* sequences of one-character strings.  Temperatures are in tenths of a    *)
(* degree.  Python's None is the string "None".                            *)
(***************************************************************************)
EXTENDS Integers, Sequences, FiniteSets, TLC

\* ------------------------------------------------------------------ bounds
\* largest number of systems one network scan reports
MaxSystems == 2
\* largest number of trailing slashes on a URL the user types
MaxSlashes == 2

\* ----------------------------------------------------- strings and the URL
None == "None"

HTTP  == <<"h", "t", "t", "p", ":", "/", "/">>
HTTPS == <<"h", "t", "t", "p", "s", ":", "/", "/">>

\* str.startswith(prefix)
StartsWith(s, p) ==
    /\ Len(s) >= Len(p)
    /\ SubSeq(s, 1, Len(p)) = p

\* str.rstrip('/') : drop every trailing slash
RECURSIVE RStrip(_)
RStrip(s) ==
    IF s # <<>> /\ s[Len(s)] = "/" THEN RStrip(SubSeq(s, 1, Len(s) - 1)) ELSE s

RECURSIVE Slashes(_)
Slashes(n) == IF n = 0 THEN <<>> ELSE <<"/">> \o Slashes(n - 1)

\* what the user may type before the host part: nothing, a scheme, a
\* scheme in capitals, or a scheme with one slash missing
TypedPrefixes ==
    { <<>>, HTTP, HTTPS,
      <<"H", "T", "T", "P", ":", "/", "/">>,
      <<"h", "t", "t", "p", ":", "/">> }

\* URLs the user can type on the manual-entry form (schema: any str)
Hosts == { <<"a">>, <<"c">> }
UrlInputs ==
    { p \o h \o Slashes(n) : p \in TypedPrefixes, h \in Hosts, n \in 0..MaxSlashes }

\* URLs a network scan may report for a found system
ScanUrls == { HTTP \o <<"a">>, HTTP \o <<"b">> }

\* credentials the user may type (user name and password together)
Creds == {"c1", "c2"}

\* what the controller does with the validation GET: a status, or the
\* request fails with a network error
Status(n) == [raised |-> FALSE, status |-> n]
NetErr    == [raised |-> TRUE, status |-> 0]
NoResp    == [raised |-> FALSE, status |-> 0]
Responses == {Status(200), Status(401), Status(403), Status(500), NetErr}

\* results of scan_network(): a list of systems, or the scan raises
RECURSIVE SeqsUpTo(_, _)
SeqsUpTo(S, n) ==
    IF n = 0 THEN {<<>>}
    ELSE LET shorter == SeqsUpTo(S, n - 1)
         IN  shorter \cup { Append(q, x) : q \in shorter, x \in S }
SystemOf(u) == [url |-> u, title |-> "Controme"]
Found(systems) == [raised |-> FALSE, systems |-> systems]
ScanRaises     == [raised |-> TRUE, systems |-> <<>>]
ScanResults ==
    { Found(q) : q \in SeqsUpTo({SystemOf(u) : u \in ScanUrls}, MaxSystems) }
        \cup {ScanRaises}

VARIABLES
    \* ---- ContromeConfigFlow instance
    discovered_systems,   \* self._discovered_systems
    user_input_saved,     \* self._user_input
    scan_already_run,     \* self._scan_already_run
    \* ---- the host's view of the flow
    cur_step,             \* step id of the form shown last; "none", "done", "aborted"
    result,               \* FlowResult returned by the handler that returned last
    entries,              \* configuration records created, in order
    \* ---- network
    scan_in_flight,       \* an auto-discovery handler is suspended in scan_network()
    scan_count,           \* scan requests issued in this wizard run
    scan_result,          \* what the completed scan reported
    get_count,            \* validation GETs issued in this wizard run
    \* ---- history of the handler that returned last
    last_call

wizardVars == <<discovered_systems, user_input_saved, scan_already_run, cur_step,
                result, entries, scan_in_flight, scan_count, scan_result,
                get_count, last_call>>

VARIABLES
    url_pc,             \* "typed", "processed", "adapter"
    typed,              \* the user_input submitted
    request_url,        \* address the validation GET is sent to
    stored,             \* data of the configuration record
    adapter_base_url    \* ContromeClimate._base_url

urlVars == <<url_pc, typed, request_url, stored, adapter_base_url>>

VARIABLES
    attr_target_temperature,  \* self._attr_target_temperature
    coordinator_data,         \* what self.coordinator.data holds for the room
    pc,                       \* "idle", "posting", "refreshing"
    call_temp,                \* kwargs.get(ATTR_TEMPERATURE) of the call
    call_log,                 \* events of the call, each with the target after it
    post_resp,                \* how the POST of the call ended
    outcome                   \* "none", "returned", "raised": how the call ended

climateVars == <<attr_target_temperature, coordinator_data, pc, call_temp,
                 call_log, post_resp, outcome>>

VARIABLES
    s_pc,               \* "idle", "built", "updated"
    s_adapter,          \* the ContromeSensor instance
    s_room,             \* the room_data handed to _update_from_data
    s_raised            \* _update_from_data raised

sensorVars == <<s_pc, s_adapter, s_room, s_raised>>

VARIABLES
    p_data,             \* coordinator.data: the list of floors polled last
    p_climate,          \* climate platform: "none", "done", "raised"
    p_sensor,           \* sensor platform: "none", "done", "raised"
    p_climates,         \* ContromeClimate instances handed to the host
    p_sensors,          \* sensor instances handed to the host
    p_last              \* the operation that ran last

platformVars == <<p_data, p_climate, p_sensor, p_climates, p_sensors, p_last>>

vars == <<wizardVars, urlVars, climateVars, sensorVars, platformVars>>
notWizardVars   == <<urlVars, climateVars, sensorVars, platformVars>>
notUrlVars      == <<wizardVars, climateVars, sensorVars, platformVars>>
notClimateVars  == <<wizardVars, urlVars, sensorVars, platformVars>>
notSensorVars   == <<wizardVars, urlVars, climateVars, platformVars>>
notPlatformVars == <<wizardVars, urlVars, climateVars, sensorVars>>

\* ------------------------------------------------------------- the wizard

\* attributes ContromeConfigFlow.__init__ sets on the instance
InstanceAttrs == {"_discovered_systems", "_user_input", "_scan_already_run"}

NoErrors == "none"
NoData == [api_url |-> <<>>, cred |-> None, haus_id |-> None]
Form(step, err) == [type |-> "form", step_id |-> step, errors |-> err, data |-> NoData]
CreateEntry(d)  == [type |-> "create_entry", step_id |-> None, errors |-> NoErrors, data |-> d]
Raised(exc)     == [type |-> "exception", step_id |-> None, errors |-> exc, data |-> NoData]
NoResult        == [type |-> "none", step_id |-> None, errors |-> NoErrors, data |-> NoData]

\* FlowManager: a form makes its step the current one, an entry ends the
\* flow, an exception aborts it
HostStepAfter(r) ==
    CASE r.type = "form"         -> r.step_id
      [] r.type = "create_entry" -> "done"
      [] OTHER                   -> "aborted"

HostEntriesAfter(r) ==
    IF r.type = "create_entry" THEN Append(entries, r.data) ELSE entries

Call(op, ui, resp) == [op |-> op, input |-> ui, resp |-> resp]

\* the handler named op returns r to the host
Return(op, ui, resp, r) ==
    /\ result' = r
    /\ cur_step' = HostStepAfter(r)
    /\ entries' = HostEntriesAfter(r)
    /\ last_call' = Call(op, ui, resp)

\* _show_form_after_scan
ShowFormAfterScanMutant(systems) ==
    IF Len(systems) = 1 THEN Form("credentials", NoErrors)
    ELSE IF Len(systems) > 1 THEN Form("select_system", NoErrors)
    ELSE Form("credentials", NoErrors)

ShowFormAfterScan(systems) ==
    IF systems # <<>>
    THEN IF Len(systems) = 1 THEN Form("credentials", NoErrors)
                             ELSE Form("select_system", NoErrors)
    ELSE Form("manual_entry", NoErrors)

Urls(systems) == { systems[i].url : i \in 1..Len(systems) }

\* user_input dictionaries
UserInput(keys, url, cred) == [keys |-> keys, url |-> url, cred |-> cred]
NoInput == UserInput({}, <<>>, None)

\* _process_user_input, lines 187-189: base_url
BaseUrl(url) == IF StartsWith(url, HTTP) \/ StartsWith(url, HTTPS) THEN url ELSE HTTP \o url

\* _process_user_input, line 190: the address of the validation GET, without
\* the fixed path that follows it
RequestUrl(url) == RStrip(BaseUrl(url))

\* _process_user_input, lines 204-212: the record handed to async_create_entry
EntryData(ui) ==
    [api_url |-> BaseUrl(ui.url), cred |-> ui.cred, haus_id |-> "1"]

\* error key set by the except clause, lines 213-215
ExceptErrorMutant == NoErrors
ExceptError == "cannot_connect"

\* the try block of _process_user_input, lines 184-215: "ok" or the error key
\* placed in errors["base"].  Reading self._house_id raises AttributeError
\* inside the try block when __init__ did not set it.
RequestIssued == "_house_id" \in InstanceAttrs

TryBlock(ui, resp) ==
    IF ~RequestIssued THEN ExceptError
    ELSE IF resp.raised THEN ExceptError
    ELSE IF resp.status = 401 THEN "invalid_auth"
    ELSE IF resp.status # 200 THEN "cannot_connect"
    ELSE "ok"

\* _process_user_input, lines 217-258: which form is shown again
ErrorFormStep(ui, systems) ==
    IF "discovery_method" \in ui.keys THEN "user"
    ELSE IF "api_url" \in ui.keys /\ ui.url \in Urls(systems) THEN "select_system"
    ELSE IF Len(systems) = 1 THEN "credentials"
    ELSE "manual_entry"

\* _process_user_input as a whole
ProcessUserInput(op, ui, resp) ==
    LET verdict == TryBlock(ui, resp)
    IN  /\ get_count' = IF RequestIssued THEN get_count + 1 ELSE get_count
        /\ IF verdict = "ok"
           THEN /\ user_input_saved' = ui
                /\ Return(op, ui, resp, CreateEntry(EntryData(ui)))
           ELSE /\ user_input_saved' = user_input_saved
                /\ Return(op, ui, resp, Form(ErrorFormStep(ui, discovered_systems), verdict))

FlowRunning == cur_step \notin {"none", "done", "aborted"}

\* async_step_user(None): the host starts the flow
StartFlow ==
    /\ UNCHANGED notWizardVars
    /\ cur_step = "none"
    /\ scan_already_run' = FALSE
    /\ Return("user", NoInput, NoResp, Form("user", NoErrors))
    /\ UNCHANGED <<discovered_systems, user_input_saved, scan_in_flight,
                   scan_count, scan_result, get_count>>

\* async_step_auto_discovery, line 70
UseCachedResultsMutant == FALSE
UseCachedResults == scan_already_run

\* async_step_auto_discovery, lines 67-79, up to the await inside
\* _async_scan_systems (lines 130-134)
AutoDiscovery(op) ==
    IF UseCachedResults
    THEN /\ Return(op, NoInput, NoResp, ShowFormAfterScan(discovered_systems))
         /\ UNCHANGED <<discovered_systems, user_input_saved, scan_already_run,
                        scan_in_flight, scan_count, scan_result, get_count>>
    ELSE /\ scan_already_run' = TRUE
         /\ discovered_systems' = <<>>
         /\ scan_count' = scan_count + 1
         /\ scan_in_flight' = TRUE
         /\ UNCHANGED <<user_input_saved, cur_step, result, entries, scan_result,
                        get_count, last_call>>

\* async_step_user({"discovery_method": "auto"}); the form shown last is
\* still "user" while an earlier submission waits for its scan
SubmitUserAuto ==
    /\ UNCHANGED notWizardVars
    /\ cur_step = "user"
    /\ AutoDiscovery("user_auto")

\* async_step_user({"discovery_method": "manual"}) -> async_step_manual_entry(None)
SubmitUserManual ==
    /\ UNCHANGED notWizardVars
    /\ cur_step = "user"
    /\ Return("user_manual", NoInput, NoResp, Form("manual_entry", NoErrors))
    /\ UNCHANGED <<discovered_systems, user_input_saved, scan_already_run,
                   scan_in_flight, scan_count, scan_result, get_count>>

\* async_step_auto_discovery invoked again by the host after a form other
\* than the initial one was shown: the case the guard at lines 69-73 is
\* written for (auto_discovery is a step of its own, listed by
\* async_get_progress_steps, lines 299-302)
ReinvokeAutoDiscovery ==
    /\ UNCHANGED notWizardVars
    /\ FlowRunning
    /\ cur_step # "user"
    /\ AutoDiscovery("auto_discovery")

\* scan_network() finishes: _async_scan_systems lines 134-138, then
\* async_step_auto_discovery line 82
ScanCompletes ==
    /\ UNCHANGED notWizardVars
    /\ scan_in_flight
    /\ FlowRunning
    /\ \E r \in ScanResults :
         LET found == IF r.raised THEN <<>> ELSE r.systems
         IN  /\ discovered_systems' = found
             /\ scan_result' = r
             /\ scan_in_flight' = FALSE
             /\ Return("scan_done", NoInput, NoResp, ShowFormAfterScan(found))
    /\ UNCHANGED <<user_input_saved, scan_already_run, scan_count, get_count>>

\* async_step_credentials(user_input), lines 158-163
SubmitCredentials ==
    /\ UNCHANGED notWizardVars
    /\ cur_step = "credentials"
    /\ \E cred \in Creds, resp \in Responses :
         IF discovered_systems = <<>>
         THEN \* self._discovered_systems[0] raises IndexError
              /\ Return("credentials", UserInput({"user", "password"}, <<>>, cred),
                        resp, Raised("IndexError"))
              /\ UNCHANGED <<user_input_saved, get_count>>
         ELSE ProcessUserInput("credentials",
                  UserInput({"user", "password", "api_url"},
                            discovered_systems[1].url, cred),
                  resp)
    /\ UNCHANGED <<discovered_systems, scan_already_run, scan_in_flight,
                   scan_count, scan_result>>

\* async_step_select_system(user_input); the schema admits the URLs of the
\* discovered systems only
SubmitSelectSystem ==
    /\ UNCHANGED notWizardVars
    /\ cur_step = "select_system"
    /\ \E url \in Urls(discovered_systems), cred \in Creds, resp \in Responses :
         ProcessUserInput("select_system",
             UserInput({"user", "password", "api_url"}, url, cred), resp)
    /\ UNCHANGED <<discovered_systems, scan_already_run, scan_in_flight,
                   scan_count, scan_result>>

\* async_step_manual_entry(user_input)
SubmitManualEntry ==
    /\ UNCHANGED notWizardVars
    /\ cur_step = "manual_entry"
    /\ \E url \in UrlInputs, cred \in Creds, resp \in Responses :
         ProcessUserInput("manual_entry",
             UserInput({"user", "password", "api_url"}, url, cred), resp)
    /\ UNCHANGED <<discovered_systems, scan_already_run, scan_in_flight,
                   scan_count, scan_result>>

WizardInit ==
    /\ discovered_systems = <<>>
    /\ user_input_saved = NoInput
    /\ scan_already_run = FALSE
    /\ cur_step = "none"
    /\ result = NoResult
    /\ entries = <<>>
    /\ scan_in_flight = FALSE
    /\ scan_count = 0
    /\ scan_result = Found(<<>>)
    /\ get_count = 0
    /\ last_call = Call("none", NoInput, NoResp)

WizardNext ==
    \/ StartFlow
    \/ SubmitUserAuto
    \/ SubmitUserManual
    \/ ReinvokeAutoDiscovery
    \/ ScanCompletes
    \/ SubmitCredentials
    \/ SubmitSelectSystem
    \/ SubmitManualEntry


\* ------------------------------------- the URL from the form to its users
\* The path of one typed URL: _process_user_input builds the request address
\* and the record (lines 187-190, 204-212), ContromeClimate.__init__ reads
\* the record (line 83).
\* ContromeClimate.__init__, line 83
AdapterBaseUrl(entry) == RStrip(entry.api_url)

\* nothing typed yet
UrlIdle ==
    /\ url_pc = "idle"
    /\ typed = NoInput
    /\ request_url = <<>>
    /\ stored = NoData
    /\ adapter_base_url = <<>>

UrlInit ==
    /\ url_pc = "typed"
    /\ typed \in { UserInput({"user", "password", "api_url"}, u, c) :
                     u \in UrlInputs, c \in Creds }
    /\ request_url = <<>>
    /\ stored = NoData
    /\ adapter_base_url = <<>>

\* the success path of _process_user_input
BuildEntry ==
    /\ UNCHANGED notUrlVars
    /\ url_pc = "typed"
    /\ url_pc' = "processed"
    /\ request_url' = RequestUrl(typed.url)
    /\ stored' = EntryData(typed)
    /\ UNCHANGED <<typed, adapter_base_url>>

\* the climate platform builds an adapter from the record
BuildAdapter ==
    /\ UNCHANGED notUrlVars
    /\ url_pc = "processed"
    /\ url_pc' = "adapter"
    /\ adapter_base_url' = AdapterBaseUrl(stored)
    /\ UNCHANGED <<typed, request_url, stored>>

UrlNext == BuildEntry \/ BuildAdapter


HasScheme(u) == StartsWith(u, HTTP) \/ StartsWith(u, HTTPS)
NoTrailingSlash(u) == u = <<>> \/ u[Len(u)] # "/"

\* --------------------------------------------------- the climate adapter
Num(n) == [kind |-> "num", v |-> n]
PyNone == [kind |-> "none", v |-> 0]

\* temperatures a caller may ask for, in tenths of a degree
TempValues == {50, 215, 300}
TempInputs == { Num(t) : t \in TempValues }

\* statuses the controller answers the POST with
PostStatuses == {200, 403, 500}

\* what the coordinator holds for the adapter's room: the room may have
\* left the snapshot, or its solltemperatur may be missing
Snapshots ==
    { [present |-> p, soll |-> t] : p \in BOOLEAN, t \in TempInputs \cup {PyNone} }

Ev(name, target) == [ev |-> name, target |-> target]

\* _update_from_data line 116 as reached from _handle_coordinator_update,
\* lines 123-128: nothing is copied when the room is not found
TargetAfterUpdate(old, data) == IF data.present THEN data.soll ELSE old

\* line 172
PostAcceptedMutant(status) == status # 403
PostAccepted(status) == status = 200

\* lines 185-190: the events after an accepted POST
SuccessEventsMutant(old, t) ==
    << Ev("refresh", old), Ev("set_target", t), Ev("write_state", t) >>
SuccessEvents(old, t) ==
    << Ev("set_target", t), Ev("write_state", t), Ev("refresh", t) >>

\* lines 192-194: what the except clause does with the exception
ExceptOutcomeMutant == "raised"
ExceptOutcome == "returned"

\* no adapter constructed yet
ClimateAbsent ==
    /\ coordinator_data = [present |-> FALSE, soll |-> PyNone]
    /\ attr_target_temperature = PyNone
    /\ pc = "absent"
    /\ call_temp = PyNone
    /\ call_log = <<>>
    /\ post_resp = NoResp
    /\ outcome = "none"

\* __init__, line 94: the adapter is built from a room of the snapshot
ClimateInit ==
    /\ coordinator_data \in { d \in Snapshots : d.present }
    /\ attr_target_temperature = coordinator_data.soll
    /\ pc = "idle"
    /\ call_temp = PyNone
    /\ call_log = <<>>
    /\ post_resp = NoResp
    /\ outcome = "none"

\* async_set_temperature, lines 145-163: up to the POST
SetTemperature ==
    /\ UNCHANGED notClimateVars
    /\ pc = "idle"
    /\ \E t \in TempInputs \cup {PyNone} :
         /\ call_temp' = t
         /\ post_resp' = NoResp
         /\ IF t = PyNone
            THEN /\ pc' = "idle"
                 /\ call_log' = <<>>
                 /\ outcome' = "returned"
            ELSE /\ pc' = "posting"
                 /\ call_log' = << Ev("post", attr_target_temperature) >>
                 /\ outcome' = "none"
    /\ UNCHANGED <<attr_target_temperature, coordinator_data>>

\* lines 170-190: the controller answers the POST
PostResponds ==
    /\ UNCHANGED notClimateVars
    /\ pc = "posting"
    /\ \E status \in PostStatuses :
         /\ post_resp' = Status(status)
         /\ IF PostAccepted(status)
            THEN /\ call_log' = call_log \o SuccessEvents(attr_target_temperature, call_temp)
                 /\ attr_target_temperature' = call_log'[Len(call_log')].target
                 /\ pc' = "refreshing"
                 /\ outcome' = "none"
            ELSE /\ call_log' = Append(call_log, Ev("error_logged", attr_target_temperature))
                 /\ attr_target_temperature' = attr_target_temperature
                 /\ pc' = "idle"
                 /\ outcome' = "returned"
    /\ UNCHANGED <<coordinator_data, call_temp>>

\* lines 163, 192-194: the POST raises
PostRaises ==
    /\ UNCHANGED notClimateVars
    /\ pc = "posting"
    /\ post_resp' = NetErr
    /\ call_log' = Append(call_log, Ev("exception", attr_target_temperature))
    /\ pc' = "idle"
    /\ outcome' = ExceptOutcome
    /\ UNCHANGED <<attr_target_temperature, coordinator_data, call_temp>>

\* line 190: coordinator.async_refresh() ends; the coordinator calls
\* _handle_coordinator_update with the data it holds then
RefreshCompletes ==
    /\ UNCHANGED notClimateVars
    /\ pc = "refreshing"
    /\ \E data \in Snapshots :
         /\ coordinator_data' = data
         /\ attr_target_temperature' = TargetAfterUpdate(attr_target_temperature, data)
         /\ call_log' = Append(call_log, Ev("refreshed", attr_target_temperature'))
    /\ pc' = "idle"
    /\ outcome' = "returned"
    /\ UNCHANGED <<call_temp, post_resp>>

\* lines 190, 192-194: coordinator.async_refresh() raises
RefreshRaises ==
    /\ UNCHANGED notClimateVars
    /\ pc = "refreshing"
    /\ call_log' = Append(call_log, Ev("exception", attr_target_temperature))
    /\ pc' = "idle"
    /\ outcome' = ExceptOutcome
    /\ UNCHANGED <<attr_target_temperature, coordinator_data, call_temp, post_resp>>

\* _handle_coordinator_update after a periodic poll; no poll overlaps the
\* refresh a call asked for
CoordinatorUpdate ==
    /\ UNCHANGED notClimateVars
    /\ pc # "refreshing"
    /\ \E data \in Snapshots :
         /\ coordinator_data' = data
         /\ attr_target_temperature' = TargetAfterUpdate(attr_target_temperature, data)
    /\ UNCHANGED <<pc, call_temp, call_log, post_resp, outcome>>

ClimateNext ==
    \/ SetTemperature
    \/ PostResponds
    \/ PostRaises
    \/ RefreshCompletes
    \/ RefreshRaises
    \/ CoordinatorUpdate

\* ------------------------------------------------ values of the JSON tree
\* Python values are records [kind, v]: Num(n) and PyNone above, strings as
\* sequences of characters, and Absent for a key the dictionary lacks.
Str(chars) == [kind |-> "str", v |-> chars]
Absent     == [kind |-> "absent", v |-> 0]

\* dict.get(key): None for a missing key
Get(d, key) == IF d[key] = Absent THEN PyNone ELSE d[key]
\* key in dict
HasKey(d, key) == d[key] # Absent

\* truth value of a Python value ("not value" is its negation)
Truthy(x) ==
    CASE x.kind = "num" -> x.v # 0
      [] x.kind = "str" -> x.v # <<>>
      [] OTHER          -> FALSE

AsciiDigits == {"0", "1", "2", "3", "4", "5", "6", "7", "8", "9"}
\* characters str.isdigit() accepts and float() rejects, such as a
\* superscript two
OtherDigits == {"sup2"}

\* str.isdigit()
IsDigit(chars) ==
    /\ chars # <<>>
    /\ \A i \in 1..Len(chars) : chars[i] \in AsciiDigits \cup OtherDigits

\* str.replace('.', '', 1)
RECURSIVE DropFirstDot(_)
DropFirstDot(chars) ==
    IF chars = <<>> THEN <<>>
    ELSE IF Head(chars) = "." THEN Tail(chars)
    ELSE <<Head(chars)>> \o DropFirstDot(Tail(chars))

\* isinstance(value, str) and not value.replace('.', '', 1).isdigit()
NonNumericString(x) == x.kind = "str" /\ ~IsDigit(DropFirstDot(x.v))

DigitValue(c) ==
    CASE c = "0" -> 0 [] c = "1" -> 1 [] c = "2" -> 2 [] c = "3" -> 3
      [] c = "4" -> 4 [] c = "5" -> 5 [] c = "6" -> 6 [] c = "7" -> 7
      [] c = "8" -> 8 [] c = "9" -> 9

RECURSIVE IntOf(_)
IntOf(chars) ==
    IF chars = <<>> THEN 0
    ELSE 10 * IntOf(SubSeq(chars, 1, Len(chars) - 1)) + DigitValue(chars[Len(chars)])

Dots(chars) == { i \in 1..Len(chars) : chars[i] = "." }
Unsigned(chars) ==
    IF chars # <<>> /\ Head(chars) \in {"-", "+"} THEN Tail(chars) ELSE chars

\* the strings float() parses: an optional sign, ASCII digits and at most one
\* point, one digit at least
FloatParses(chars) ==
    LET u == Unsigned(chars)
    IN  /\ \A i \in 1..Len(u) : u[i] \in AsciiDigits \cup {"."}
        /\ Cardinality(Dots(u)) <= 1
        /\ \E i \in 1..Len(u) : u[i] \in AsciiDigits

\* float(chars) in tenths, for a string with one digit at most after the point
TenthsOf(chars) ==
    LET u    == Unsigned(chars)
        dot  == IF Dots(u) = {} THEN Len(u) + 1 ELSE CHOOSE i \in Dots(u) : TRUE
        whole == IntOf(SubSeq(u, 1, dot - 1))
        frac  == IF dot < Len(u) THEN DigitValue(u[dot + 1]) ELSE 0
        sign  == IF chars # <<>> /\ Head(chars) = "-" THEN -1 ELSE 1
    IN  sign * (10 * whole + frac)

\* float(value): the number, or the exception raised
FloatOf(x) ==
    CASE x.kind = "num" -> [ok |-> TRUE, value |-> x, exc |-> "none"]
      [] x.kind = "str" ->
            IF FloatParses(x.v)
            THEN [ok |-> TRUE, value |-> Num(TenthsOf(x.v)), exc |-> "none"]
            ELSE [ok |-> FALSE, value |-> PyNone, exc |-> "ValueError"]
      [] OTHER -> [ok |-> FALSE, value |-> PyNone, exc |-> "TypeError"]

\* ------------------------------------------------------ rooms and sensors
\* a raw sensor of a room: name, wert, raumtemperatursensor
PyTrue  == [kind |-> "bool", v |-> 1]
PyFalse == [kind |-> "bool", v |-> 0]
RawSensor(name, wert, primary) == [name |-> name, wert |-> wert, raumtemperatursensor |-> primary]

\* a room, or a floor: a floor has the keys of a room and its list of rooms
RoomKeys == {"temperatur", "solltemperatur", "luftfeuchte", "total_offset", "betriebsart"}
EmptyRoom ==
    [id |-> Absent, name |-> Absent, temperatur |-> Absent, solltemperatur |-> Absent,
     luftfeuchte |-> Absent, total_offset |-> Absent, betriebsart |-> Absent,
     sensoren |-> <<>>, floor_id |-> Absent, raeume |-> <<>>]

\* const.VALUE_MAP: sensor type -> key of the room data
VALUE_MAP ==
    [current |-> "temperatur", target |-> "solltemperatur", humidity |-> "luftfeuchte",
     total_offset |-> "total_offset", operation_mode |-> "betriebsart"]
ValueSensorTypes == {"current", "target", "humidity", "total_offset"}

\* sensor types: a plain type, or "return_<name>" for a raw sensor
PlainType(t)      == [return |-> FALSE, name |-> t]
ReturnType(sname) == [return |-> TRUE, name |-> sname]

\* __init_sensor_description: sensor_type.split("_")[0] looked up in
\* SENSOR_TYPES, falling back to its first entry
DeviceClass(sensor_type) ==
    IF sensor_type.return THEN "temperature"
    ELSE IF sensor_type.name = "humidity" THEN "humidity"
    ELSE "temperature"

\* an adapter (ContromeClimate, ContromeSensor, ContromeOperationModeSensor)
Adapter(cls, sensor_type, room) ==
    [cls |-> cls, sensor_type |-> sensor_type,
     room_id |-> Get(room, "id"), floor_id |-> Get(room, "floor_id"),
     native_value |-> PyNone, available |-> TRUE,
     target |-> PyNone, hvac_mode |-> PyNone, humidity |-> PyNone]

\* ContromeSensor._update_from_data, lines 276-277 and 283-284
Rejected(a) == [a EXCEPT !.native_value = PyNone, !.available = FALSE]

\* line 275: the test that sends a value to the rejected branch
FailsNumericTest(value) == ~Truthy(value) \/ NonNumericString(value)

\* line 282: except (ValueError, TypeError)
CaughtMutant(exc) == FALSE
Caught(exc) == exc \in {"ValueError", "TypeError"}

\* ContromeSensor._update_from_data, lines 255-267: a return sensor
RECURSIVE UpdateReturn(_, _, _)
UpdateReturn(a, sensoren, i) ==
    IF i > Len(sensoren) THEN a
    ELSE IF sensoren[i].name = Str(a.sensor_type.name)
    THEN LET value == sensoren[i].wert
         IN  IF NonNumericString(value)
             THEN [a EXCEPT !.native_value = PyNone, !.available = FALSE]
             ELSE [a EXCEPT !.native_value = value, !.available = TRUE]
    ELSE UpdateReturn(a, sensoren, i + 1)

\* ContromeSensor._update_from_data, lines 268-287: a sensor of a room key
UpdateValue(a, room_data) ==
    LET value == Get(room_data, VALUE_MAP[a.sensor_type.name])
    IN  IF DeviceClass(a.sensor_type) \in {"temperature", "humidity"}
        THEN IF FailsNumericTest(value) THEN Rejected(a)
             ELSE IF FloatOf(value).ok
                  THEN [a EXCEPT !.native_value = FloatOf(value).value, !.available = TRUE]
                  ELSE IF Caught(FloatOf(value).exc) THEN Rejected(a) ELSE a
        ELSE [a EXCEPT !.native_value = value, !.available = (value # PyNone)]

\* the same lines: an exception of float() that the except clause lets pass
UpdateValueRaises(a, room_data) ==
    LET value == Get(room_data, VALUE_MAP[a.sensor_type.name])
    IN  /\ DeviceClass(a.sensor_type) \in {"temperature", "humidity"}
        /\ ~FailsNumericTest(value)
        /\ ~FloatOf(value).ok
        /\ ~Caught(FloatOf(value).exc)

\* ContromeSensor._update_from_data
SensorUpdateFromData(a, room_data) ==
    IF a.sensor_type.return THEN UpdateReturn(a, room_data.sensoren, 1)
    ELSE UpdateValue(a, room_data)

SensorUpdateRaises(a, room_data) ==
    ~a.sensor_type.return /\ UpdateValueRaises(a, room_data)

\* ----------------------------- one value sensor and one room data (sensor.py)
Chars(n) ==
    CASE n = "N/A"   -> <<"N", "/", "A">>
      [] n = ""      -> <<>>
      [] n = "21.5"  -> <<"2", "1", ".", "5">>
      [] n = "21"    -> <<"2", "1">>
      [] n = "0"     -> <<"0">>
      [] n = "-5"    -> <<"-", "5">>
      [] n = "1.2.3" -> <<"1", ".", "2", ".", "3">>
      [] n = "."     -> <<".">>
      [] n = "sup2"  -> <<"sup2">>

\* what the JSON may hold under a temperature or humidity key
NumericReadings == { Num(n) : n \in {-50, 0, 215} }
StringReadings ==
    { Str(Chars(n)) : n \in {"N/A", "", "21.5", "21", "0", "-5", "1.2.3", ".", "sup2"} }
FieldValues == {Absent, PyNone} \cup NumericReadings \cup StringReadings

\* states a sensor may be in when an update arrives
PriorStates ==
    { [native_value |-> PyNone, available |-> TRUE],
      [native_value |-> PyNone, available |-> FALSE],
      [native_value |-> Num(180), available |-> TRUE] }

SensorIdle ==
    /\ s_pc = "idle"
    /\ s_adapter = Adapter("none", PlainType("current"), EmptyRoom)
    /\ s_room = EmptyRoom
    /\ s_raised = FALSE

\* a value sensor of a room key, and room data holding some value under it
SensorInit ==
    /\ s_pc = "built"
    /\ \E t \in ValueSensorTypes, p \in PriorStates :
         s_adapter = [Adapter("sensor", PlainType(t), EmptyRoom) EXCEPT
                         !.native_value = p.native_value, !.available = p.available]
    /\ \E v \in FieldValues :
         s_room = [EmptyRoom EXCEPT ![VALUE_MAP[s_adapter.sensor_type.name]] = v]
    /\ s_raised = FALSE

\* _update_from_data(room_data)
ApplyUpdate ==
    /\ UNCHANGED notSensorVars
    /\ s_pc = "built"
    /\ s_pc' = "updated"
    /\ s_adapter' = SensorUpdateFromData(s_adapter, s_room)
    /\ s_raised' = SensorUpdateRaises(s_adapter, s_room)
    /\ UNCHANGED s_room

SensorNext == ApplyUpdate

\* ------------------------- the platforms: setup and coordinator updates
Heating == Str(<<"H", "e", "a", "t", "i", "n", "g">>)
Off     == Str(<<"O", "f", "f">>)
Heat    == Str(<<"h", "e", "a", "t">>)

\* ContromeClimate._update_from_data, climate.py lines 113-118
ClimateUpdateFromData(a, data) ==
    [a EXCEPT !.native_value = Get(data, "temperatur"),
              !.target = Get(data, "solltemperatur"),
              !.hvac_mode = IF Get(data, "betriebsart") = Heating THEN Heat ELSE PyNone,
              !.humidity = Get(data, "luftfeuchte")]

\* ContromeOperationModeSensor._update_from_data, sensor.py lines 347-350
ModeUpdateFromData(a, room_data) ==
    [a EXCEPT !.native_value = Get(room_data, VALUE_MAP["operation_mode"])]

\* _update_from_data of the adapter's class
UpdateFromData(a, room_data) ==
    CASE a.cls = "climate" -> ClimateUpdateFromData(a, room_data)
      [] a.cls = "mode"    -> ModeUpdateFromData(a, room_data)
      [] OTHER             -> SensorUpdateFromData(a, room_data)

\* the constructors: attributes from room_data, then _update_from_data
NewAdapter(cls, sensor_type, room_data) ==
    UpdateFromData(Adapter(cls, sensor_type, room_data), room_data)

\* sensor.py lines 131-148: one sensor per VALUE_MAP entry whose key the room has
SensorOrder == <<"current", "target", "humidity", "total_offset", "operation_mode">>
RECURSIVE BasicSensors(_, _)
BasicSensors(room, i) ==
    IF i > Len(SensorOrder) THEN <<>>
    ELSE LET t == SensorOrder[i]
         IN  (IF HasKey(room, VALUE_MAP[t])
              THEN << NewAdapter(IF t = "operation_mode" THEN "mode" ELSE "sensor",
                                 PlainType(t), room) >>
              ELSE <<>>) \o BasicSensors(room, i + 1)

\* sensor.py line 153: sensor.get("raumtemperatursensor", "") == False
IsReturnSensor(sensor) ==
    sensor.raumtemperatursensor = PyFalse \/ sensor.raumtemperatursensor = Num(0)

\* sensor.py lines 152-165: one sensor per raw sensor that is not primary
RECURSIVE ReturnSensors(_, _)
ReturnSensors(room, i) ==
    IF i > Len(room.sensoren) THEN <<>>
    ELSE (IF IsReturnSensor(room.sensoren[i])
          THEN << NewAdapter("sensor", ReturnType(room.sensoren[i].name.v), room) >>
          ELSE <<>>) \o ReturnSensors(room, i + 1)

\* climate.py line 51, sensor.py line 121: room["floor_id"] = floor_id
InjectFloorIdMutant(room, floor_id) == [room EXCEPT !.floor_id = floor_id, !.id = floor_id]
InjectFloorId(room, floor_id) == [room EXCEPT !.floor_id = floor_id]

\* the body of "for room in rooms": climate.py lines 47-68, sensor.py lines
\* 114-165.  A room without a usable id makes both reach the undefined name
\* index (NameError); ContromeClimate.__init__ calls lower() on the room's
\* name (line 93), AttributeError when the room has none.
ProcessRoom(platform, floor_id, room) ==
    IF ~Truthy(Get(room, "id"))
    THEN [room |-> room, adapters |-> <<>>, raised |-> TRUE]
    ELSE LET r == InjectFloorId(room, floor_id)
         IN  IF platform = "climate"
             THEN IF HasKey(r, "name")
                  THEN [room |-> r,
                        adapters |-> << NewAdapter("climate", PlainType("climate"), r) >>,
                        raised |-> FALSE]
                  ELSE [room |-> r, adapters |-> <<>>, raised |-> TRUE]
             ELSE [room |-> r,
                   adapters |-> BasicSensors(r, 1) \o ReturnSensors(r, 1),
                   raised |-> FALSE]

\* adapters collected so far, joined to what the rest of a loop returns
Joined(adapters, rest) == [rest EXCEPT !.adapters = adapters \o @]

\* "for room in rooms": the loop ends at the first room that raises
RECURSIVE ProcessRooms(_, _, _, _)
RECURSIVE AfterRoom(_, _, _, _, _)
AfterRoom(platform, floor_id, rooms, i, one) ==
    IF one.raised
    THEN [rooms |-> [rooms EXCEPT ![i] = one.room], adapters |-> <<>>, raised |-> TRUE]
    ELSE Joined(one.adapters,
                ProcessRooms(platform, floor_id, [rooms EXCEPT ![i] = one.room], i + 1))
ProcessRooms(platform, floor_id, rooms, i) ==
    IF i > Len(rooms) THEN [rooms |-> rooms, adapters |-> <<>>, raised |-> FALSE]
    ELSE AfterRoom(platform, floor_id, rooms, i, ProcessRoom(platform, floor_id, rooms[i]))

\* climate.py line 43, sensor.py line 109: the floor stands for its room
FloorIsRoom(floor) ==
    /\ floor.raeume = <<>>
    /\ (HasKey(floor, "temperatur") \/ HasKey(floor, "solltemperatur"))

\* rooms = [floor]: the floor object is the room object
FloorAsRoom(one) == [floor |-> one.room, adapters |-> one.adapters, raised |-> one.raised]
\* rooms = floor.get("raeume", [])
FloorOfRooms(floor, all) ==
    [floor |-> [floor EXCEPT !.raeume = all.rooms],
     adapters |-> all.adapters, raised |-> all.raised]

\* the body of "for floor in data": climate.py lines 39-68, sensor.py 104-165
ProcessFloor(platform, floor) ==
    IF FloorIsRoom(floor)
    THEN FloorAsRoom(ProcessRoom(platform, Get(floor, "id"), floor))
    ELSE FloorOfRooms(floor, ProcessRooms(platform, Get(floor, "id"), floor.raeume, 1))

\* "for floor in data": the loop ends at the first floor that raises
RECURSIVE ProcessFloors(_, _, _)
RECURSIVE AfterFloor(_, _, _, _)
AfterFloor(platform, data, i, one) ==
    IF one.raised
    THEN [data |-> [data EXCEPT ![i] = one.floor], adapters |-> <<>>, raised |-> TRUE]
    ELSE Joined(one.adapters,
                ProcessFloors(platform, [data EXCEPT ![i] = one.floor], i + 1))
ProcessFloors(platform, data, i) ==
    IF i > Len(data) THEN [data |-> data, adapters |-> <<>>, raised |-> FALSE]
    ELSE AfterFloor(platform, data, i, ProcessFloor(platform, data[i]))

\* async_setup_entry of a platform; async_add_entities is not reached when
\* the loop raises, and the sensor platform returns at once on empty data
\* (sensor.py lines 98-100)
SetupEntry(platform, data) ==
    IF platform = "sensor" /\ data = <<>>
    THEN [data |-> data, adapters |-> <<>>, raised |-> FALSE]
    ELSE ProcessFloors(platform, data, 1)

\* what _handle_coordinator_update does when it finds no room
NotFoundMutant(a) == [a EXCEPT !.native_value = PyNone, !.available = FALSE]
NotFound(a) == a

\* the inner loop of _handle_coordinator_update: the first room of the
\* floor's "raeume" with the adapter's room id
MatchingRooms(a, floor) ==
    { j \in 1..Len(floor.raeume) : floor.raeume[j].id = a.room_id }
FirstMatch(a, floor) == CHOOSE j \in MatchingRooms(a, floor) :
                            \A k \in MatchingRooms(a, floor) : j <= k

\* _handle_coordinator_update: climate.py lines 123-128, sensor.py lines
\* 245-250 and 335-343 (the mode sensor stops at the first room found)
RECURSIVE HandleFrom(_, _, _, _)
HandleFrom(a, data, i, found) ==
    IF i > Len(data) THEN (IF found THEN a ELSE NotFound(a))
    ELSE IF data[i].id = a.floor_id /\ MatchingRooms(a, data[i]) # {}
    THEN LET updated == UpdateFromData(a, data[i].raeume[FirstMatch(a, data[i])])
         IN  IF a.cls = "mode" THEN updated
             ELSE HandleFrom(updated, data, i + 1, TRUE)
    ELSE HandleFrom(a, data, i + 1, found)

HandleCoordinatorUpdate(a, data) == HandleFrom(a, data, 1, FALSE)

\* ------------------------------------ snapshots the coordinator may deliver
\* two sets of readings of a room
Profiles == {"A", "B"}
Reading(p, key) ==
    CASE key = "temperatur"     -> IF p = "A" THEN Num(215) ELSE Num(190)
      [] key = "solltemperatur" -> IF p = "A" THEN Num(200) ELSE Num(210)
      [] key = "wert"           -> IF p = "A" THEN Num(300) ELSE Num(310)
      [] OTHER                  -> IF p = "A" THEN Heating ELSE Off

S1 == Str(<<"s", "1">>)
S2 == Str(<<"s", "2">>)
SensorLists == {"none", "ret", "mixed", "unflagged"}
Sensoren(k, p) ==
    CASE k = "ret"       -> << RawSensor(S1, Reading(p, "wert"), PyFalse) >>
      [] k = "mixed"     -> << RawSensor(S1, Reading(p, "temperatur"), PyTrue),
                               RawSensor(S2, Reading(p, "wert"), PyFalse) >>
      [] k = "unflagged" -> << RawSensor(S1, Reading(p, "wert"), Absent) >>
      [] OTHER           -> <<>>

\* a room object; a floor that carries readings itself has the same keys
RoomObject(id, named, p, k) ==
    [EmptyRoom EXCEPT !.id = Num(id),
                      !.name = IF named THEN Str(<<"r">>) ELSE Absent,
                      !.temperatur = Reading(p, "temperatur"),
                      !.solltemperatur = Reading(p, "solltemperatur"),
                      !.betriebsart = Reading(p, "betriebsart"),
                      !.sensoren = Sensoren(k, p)]
FloorObject(id, rooms) == [EmptyRoom EXCEPT !.id = Num(id), !.raeume = rooms]

FloorsWithRooms ==
    { FloorObject(1, <<>>),
      FloorObject(1, << RoomObject(7, FALSE, "A", "none") >>),
      FloorObject(1, << RoomObject(0, TRUE, "A", "none") >>),
      FloorObject(2, << RoomObject(7, TRUE, "A", "ret") >>) }
    \cup { FloorObject(1, << RoomObject(7, TRUE, p, k) >>) :
               p \in Profiles, k \in {"mixed", "unflagged"} }
    \cup { FloorObject(1, << RoomObject(7, TRUE, p, "ret"), RoomObject(8, TRUE, "A", "none") >>) :
               p \in Profiles }
FloorsWithReadings ==
    { RoomObject(1, named, p, "ret") : named \in BOOLEAN, p \in Profiles }

PlatformSnapshots ==
    {<<>>}
    \cup { <<f>> : f \in FloorsWithRooms \cup FloorsWithReadings }
    \cup { << RoomObject(1, TRUE, "A", "none"),
              FloorObject(2, << RoomObject(8, TRUE, p, "none") >>) >> : p \in Profiles }

\* temperatures a user may set
SetPoints == {Num(225)}

\* ------------------------------------------------- the platforms at work
PlatformIdle ==
    /\ p_data = <<>>
    /\ p_climate = "none"
    /\ p_sensor = "none"
    /\ p_climates = <<>>
    /\ p_sensors = <<>>
    /\ p_last = "idle"

\* the first refresh has delivered a snapshot; no platform is set up yet
PlatformInit ==
    /\ p_data \in PlatformSnapshots
    /\ p_climate = "none"
    /\ p_sensor = "none"
    /\ p_climates = <<>>
    /\ p_sensors = <<>>
    /\ p_last = "first_refresh"

\* climate.async_setup_entry, climate.py lines 30-70
SetupClimate ==
    /\ p_climate = "none"
    /\ \E done \in {SetupEntry("climate", p_data)} :
          /\ p_data' = done.data
          /\ p_climates' = IF done.raised THEN <<>> ELSE done.adapters
          /\ p_climate' = IF done.raised THEN "raised" ELSE "done"
    /\ p_last' = "setup_climate"
    /\ UNCHANGED <<p_sensor, p_sensors>>
    /\ UNCHANGED notPlatformVars

\* sensor.async_setup_entry, sensor.py lines 81-168
SetupSensor ==
    /\ p_sensor = "none"
    /\ \E done \in {SetupEntry("sensor", p_data)} :
          /\ p_data' = done.data
          /\ p_sensors' = IF done.raised THEN <<>> ELSE done.adapters
          /\ p_sensor' = IF done.raised THEN "raised" ELSE "done"
    /\ p_last' = "setup_sensor"
    /\ UNCHANGED <<p_climate, p_climates>>
    /\ UNCHANGED notPlatformVars

\* the coordinator delivers a new snapshot and every adapter handles it;
\* the host forwards the entry to both platforms before it polls again
Poll ==
    /\ p_climate # "none"
    /\ p_sensor # "none"
    /\ \E snapshot \in PlatformSnapshots :
          /\ p_data' = snapshot
          /\ p_climates' = [i \in DOMAIN p_climates |->
                               HandleCoordinatorUpdate(p_climates[i], snapshot)]
          /\ p_sensors' = [i \in DOMAIN p_sensors |->
                              HandleCoordinatorUpdate(p_sensors[i], snapshot)]
    /\ p_last' = "poll"
    /\ UNCHANGED <<p_climate, p_sensor>>
    /\ UNCHANGED notPlatformVars

\* async_set_temperature with an accepted POST: the one attribute it
\* writes (climate.py line 185); the refresh it asks for is a Poll
SetTemperatureAccepted ==
    /\ \E i \in DOMAIN p_climates, temperature \in SetPoints :
          p_climates' = [p_climates EXCEPT ![i].target = temperature]
    /\ p_last' = "set_temperature"
    /\ UNCHANGED <<p_data, p_climate, p_sensor, p_sensors>>
    /\ UNCHANGED notPlatformVars

PlatformNext == SetupClimate \/ SetupSensor \/ Poll \/ SetTemperatureAccepted

\* ------------------------------------------------------------ properties

SubmitOps == {"manual_entry", "credentials", "select_system"}

\* the handler that returned last is a submission of URL/user/password
Submitted == last_call.op \in SubmitOps

\* its validation failed: any answer but 200
FailedAnswer(resp) == resp.raised \/ resp.status # 200

\* C1: a submission on manual-entry, credentials or select-system that the
\* controller answers with 200 creates exactly one configuration record and
\* ends the run with that record, not with a form.
C1_OkCreatesOneRecord ==
    (Submitted /\ last_call.resp = Status(200))
        => (result.type = "create_entry" /\ Len(entries) = 1)

C3_UnauthorizedShowsInvalidAuth ==
    (last_call.op = "manual_entry" /\ last_call.resp = Status(401))
        => (result = Form("manual_entry", "invalid_auth") /\ entries = <<>>)

\* C4: a status other than 200 and 401, or a network error, gives a form with
\* "cannot_connect", no record and no exception.
C4_OtherFailureShowsCannotConnect ==
    (Submitted /\ (last_call.resp.raised \/ last_call.resp.status \notin {200, 401}))
        => /\ result.type = "form"
           /\ result.errors = "cannot_connect"
           /\ entries = <<>>
           /\ cur_step # "aborted"

C4_Witness ==
    /\ last_call.op = "select_system"
    /\ last_call.resp = Status(500)
    /\ result.type = "form"
    /\ result.errors = "cannot_connect"

\* C5: after a failed validation the form shown has the step id of the step
\* the input was submitted on.
C5_FailureShowsSameStep ==
    (Submitted /\ FailedAnswer(last_call.resp))
        => (result.type = "form" /\ result.step_id = last_call.op)

AutoDiscoveryOps == {"user_auto", "auto_discovery", "scan_done"}

\* C6: an auto-discovery that returns with zero discovered systems, the scan
\* having raised included, shows the manual-entry form, and nothing is
\* raised to the host.
C6_ZeroSystemsShowsManualEntry ==
    (last_call.op \in AutoDiscoveryOps /\ discovered_systems = <<>>)
        => (result = Form("manual_entry", NoErrors) /\ cur_step = "manual_entry")

C6_Witness ==
    /\ last_call.op = "scan_done"
    /\ scan_result.raised
    /\ discovered_systems = <<>>
    /\ result.step_id = "manual_entry"

\* C7: within one wizard run at most one scan request is issued; an
\* auto-discovery invoked again after the scan has completed issues no scan
\* and shows the form that the scan's result set determines.
C7_AtMostOneScan ==
    [][ /\ scan_count' <= 1
        /\ (/\ scan_already_run
            /\ ~scan_in_flight
            /\ last_call'.op \in {"user_auto", "auto_discovery"})
              => /\ scan_count' = scan_count
                 /\ ~scan_in_flight'
                 /\ result' = ShowFormAfterScan(scan_result.systems) ]_vars

C7_Witness ==
    /\ last_call.op = "auto_discovery"
    /\ scan_count = 1
    /\ ~scan_in_flight
    /\ Len(scan_result.systems) = 1
    /\ result.step_id = "credentials"

\* events of the call so far that are named name
EventsNamed(name) == { i \in 1..Len(call_log) : call_log[i].ev = name }

\* C8: after a POST answered 200 the local target is set to the value asked
\* for first, and the re-poll is requested afterwards, exactly once.
C8_TargetSetThenOneRefresh ==
    (pc # "absent" /\ post_resp = Status(200))
        => /\ Cardinality(EventsNamed("refresh")) = 1
           /\ \A r \in EventsNamed("refresh") :
                /\ call_log[r].target = call_temp
                /\ \E w \in EventsNamed("set_target") :
                     w < r /\ call_log[w].target = call_temp
           /\ pc = "refreshing" => attr_target_temperature = call_temp

C8_Witness ==
    /\ pc = "refreshing"
    /\ post_resp = Status(200)
    /\ call_temp = Num(215)
    /\ attr_target_temperature = Num(215)
    /\ call_log[1].target # Num(215)

\* C9: a POST answered with a status other than 200 leaves the local target
\* as it was and requests no re-poll.
C9_RejectedPostChangesNothing ==
    [][ (pc = "posting" /\ pc' # "posting" /\ ~post_resp'.raised
                        /\ post_resp'.status # 200)
          => /\ attr_target_temperature' = attr_target_temperature
             /\ pc' = "idle"
             /\ EventsNamed("refresh")' = {} ]_vars

C9_Witness ==
    /\ pc = "idle"
    /\ post_resp = Status(403)
    /\ outcome = "returned"
    /\ attr_target_temperature # call_temp
    /\ EventsNamed("refresh") = {}

\* C10: a network exception in the POST or in the re-poll makes the call
\* return normally; after an exception in the re-poll the local target still
\* is the value asked for.
C10_ExceptionsSwallowed ==
    [][ /\ outcome' # "raised"
        /\ (pc = "posting" /\ post_resp'.raised) => (pc' = "idle" /\ outcome' = "returned")
        /\ (pc = "refreshing" /\ EventsNamed("exception")' # {})
              => /\ pc' = "idle"
                 /\ outcome' = "returned"
                 /\ attr_target_temperature' = call_temp ]_vars

C10_Witness ==
    /\ pc = "idle"
    /\ post_resp = Status(200)
    /\ EventsNamed("exception") # {}
    /\ outcome = "returned"
    /\ attr_target_temperature = call_temp
    /\ call_log[1].target # call_temp

\* the value the room data holds under the key of the sensor
FieldOf(a, room_data) == room_data[VALUE_MAP[a.sensor_type.name]]

\* a plain decimal number: ASCII digits, one point at most
PlainDecimal(chars) ==
    /\ \A i \in 1..Len(chars) : chars[i] \in AsciiDigits \cup {"."}
    /\ Cardinality({ i \in 1..Len(chars) : chars[i] = "." }) <= 1
    /\ \E i \in 1..Len(chars) : chars[i] \in AsciiDigits

NotANumberString(x) == x.kind = "str" /\ ~PlainDecimal(x.v)

\* C12: a value sensor of a temperature or humidity key whose room data holds
\* a string that is not a plain decimal number ends its update without
\* raising, with no value and unavailable.
C12_NonNumericStringUnavailable ==
    (s_pc = "updated" /\ NotANumberString(FieldOf(s_adapter, s_room)))
        => /\ ~s_raised
           /\ s_adapter.native_value = PyNone
           /\ ~s_adapter.available

C12_Witness ==
    /\ s_pc = "updated"
    /\ s_adapter.sensor_type = PlainType("humidity")
    /\ s_room.luftfeuchte = Str(Chars("N/A"))
    /\ ~s_raised
    /\ s_adapter.native_value = PyNone
    /\ ~s_adapter.available

\* C17: every numeric reading, 0 included, makes the value sensor available
\* with that reading as its value; only an absent or non-numeric reading
\* makes it unavailable.
C17_NumericReadingAvailable ==
    s_pc = "updated"
        => LET v == FieldOf(s_adapter, s_room)
           IN  /\ v.kind = "num" => (s_adapter.available /\ s_adapter.native_value = v)
               /\ ~s_adapter.available
                     => (v \in {Absent, PyNone} \/ NotANumberString(v))

\* C18: when auto-discovery is invoked again while the scan is still in
\* flight, the form that invocation returned is the one the completed scan's
\* result set determines (no manual-entry fallback when a system is found).
\* Stated for the overlapping invocation that returned last before the scan
\* completes.
C18_OverlappingInvocationShowsScanForm ==
    [][ (/\ scan_in_flight
         /\ ~scan_in_flight'
         /\ last_call.op \in {"user_auto", "auto_discovery"})
          => result = ShowFormAfterScan(scan_result'.systems) ]_vars

\* the rooms of a floor: its room list, or the floor itself when it has
\* none and carries a temperature field
RoomsOfFloor(floor) == IF FloorIsRoom(floor) THEN <<floor>> ELSE floor.raeume

\* the room objects of a snapshot that carry the adapter's floor and room id
OwnRooms(a, data) ==
    { RoomsOfFloor(data[i])[j] : <<i, j>> \in
        { <<i, j>> \in (DOMAIN data) \X (1..2) :
            /\ data[i].id = a.floor_id
            /\ j \in DOMAIN RoomsOfFloor(data[i])
            /\ RoomsOfFloor(data[i])[j].id = a.room_id } }

\* neither a floor nor a room of the snapshot carries the adapter's ids
NoLongerOccurs(a, data) ==
    \/ \A i \in DOMAIN data : data[i].id # a.floor_id
    \/ \A i \in DOMAIN data : \A j \in DOMAIN RoomsOfFloor(data[i]) :
           RoomsOfFloor(data[i])[j].id # a.room_id

\* C11: when the climate platform is set up, every floor of the snapshot
\* that has no rooms but a current or target temperature gets exactly one
\* climate adapter, made from the floor itself, and a floor with neither
\* rooms nor those fields gets none.
C11_FloorWithReadingsGetsOneClimateAdapter ==
    [][ (p_climate = "none" /\ p_climate' # "none") =>
          \A i \in DOMAIN p_data :
             p_data[i].raeume = <<>> =>
                Cardinality({ k \in DOMAIN p_climates' :
                                p_climates'[k].floor_id = p_data[i].id }) =
                   IF FloorIsRoom(p_data[i]) THEN 1 ELSE 0 ]_vars

\* C13: after every coordinator update each climate adapter, value sensor
\* and operation mode sensor whose floor and room are still in the
\* snapshot, a room made from a floor included, shows the projection of
\* that room's data.
C13_AdaptersShowLatestSnapshot ==
    p_last = "poll" =>
       \A a \in { p_climates[i] : i \in DOMAIN p_climates }
                \cup { p_sensors[i] : i \in DOMAIN p_sensors } :
          ~a.sensor_type.return =>
             \A room \in OwnRooms(a, p_data) : UpdateFromData(a, room) = a

\* the raw sensors of a room for which a return sensor is due
NonPrimary(room) ==
    { n \in DOMAIN room.sensoren : room.sensoren[n].raumtemperatursensor = PyFalse }
ReturnAdaptersOf(adapters, floor, room) ==
    { k \in DOMAIN adapters : /\ adapters[k].sensor_type.return
                              /\ adapters[k].floor_id = floor.id
                              /\ adapters[k].room_id = room.id }

\* C14: the sensor platform creates, for each room, one return sensor per
\* raw sensor marked as not primary and none for the others, and after
\* every update each return sensor shows the reading of the raw sensor of
\* its name.
C14_ReturnSensorsFollowRawSensors ==
    [][ /\ (p_sensor = "none" /\ p_sensor' # "none") =>
             \A i \in DOMAIN p_data : \A j \in DOMAIN RoomsOfFloor(p_data[i]) :
                LET room == RoomsOfFloor(p_data[i])[j]
                    made == ReturnAdaptersOf(p_sensors', p_data[i], room)
                IN  /\ Cardinality(made) = Cardinality(NonPrimary(room))
                    /\ { Str(p_sensors'[k].sensor_type.name) : k \in made }
                          = { room.sensoren[n].name : n \in NonPrimary(room) }
        /\ p_last' = "poll" =>
             \A k \in DOMAIN p_sensors' :
                p_sensors'[k].sensor_type.return =>
                   \A room \in OwnRooms(p_sensors'[k], p_data') :
                      \A n \in NonPrimary(room) :
                         room.sensoren[n].name = Str(p_sensors'[k].sensor_type.name)
                            => p_sensors'[k].native_value = room.sensoren[n].wert ]_vars

\* C15: a coordinator update whose snapshot no longer holds the adapter's
\* floor id or room id leaves the adapter as it was, value and
\* availability included.
C15_MissingRoomLeavesAdapter ==
    [][ p_last' = "poll" =>
          /\ \A i \in DOMAIN p_climates :
                NoLongerOccurs(p_climates[i], p_data') => p_climates'[i] = p_climates[i]
          /\ \A i \in DOMAIN p_sensors :
                NoLongerOccurs(p_sensors[i], p_data') => p_sensors'[i] = p_sensors[i] ]_vars

C15_Witness ==
    /\ p_last = "poll"
    /\ \E i \in DOMAIN p_climates :
          /\ NoLongerOccurs(p_climates[i], p_data)
          /\ p_climates[i].native_value # PyNone
    /\ \E i \in DOMAIN p_sensors :
          /\ NoLongerOccurs(p_sensors[i], p_data)
          /\ p_sensors[i].native_value # PyNone

\* C16 as stated: no operation of the integration changes a floor or room
\* object of the snapshot; a poll leaves the snapshot as it was delivered.
C16_SnapshotNeverModified ==
    [][ /\ p_last' \in {"setup_climate", "setup_sensor", "set_temperature"}
             => p_data' = p_data
        /\ p_last' = "poll" => p_data' \in PlatformSnapshots ]_vars

\* a snapshot without the floor_id keys
WithoutFloorId(object) ==
    [object EXCEPT !.floor_id = Absent,
                   !.raeume = [j \in DOMAIN object.raeume |->
                                  [object.raeume[j] EXCEPT !.floor_id = Absent]]]
WithoutFloorIds(data) == [i \in DOMAIN data |-> WithoutFloorId(data[i])]

\* C16, amended: platform setup changes the snapshot only by writing the
\* floor's id under "floor_id" into room objects (into the floor object
\* when it stands for its room); set-temperature changes nothing of it and
\* a poll leaves the snapshot as it was delivered.
C16_SetupWritesOnlyFloorId ==
    [][ /\ p_last' \in {"setup_climate", "setup_sensor"} =>
             /\ WithoutFloorIds(p_data') = WithoutFloorIds(p_data)
             /\ \A i \in DOMAIN p_data :
                   /\ p_data'[i].floor_id \in {p_data[i].floor_id, p_data[i].id}
                   /\ \A j \in DOMAIN p_data[i].raeume :
                         p_data'[i].raeume[j].floor_id
                            \in {p_data[i].raeume[j].floor_id, p_data[i].id}
        /\ p_last' = "set_temperature" => p_data' = p_data
        /\ p_last' = "poll" => p_data' \in PlatformSnapshots ]_vars

C16_Witness ==
    /\ p_last \in {"setup_climate", "setup_sensor"}
    /\ \E i \in DOMAIN p_data :
          \/ p_data[i].floor_id # Absent
          \/ \E j \in DOMAIN p_data[i].raeume : p_data[i].raeume[j].floor_id # Absent


\* ------------------------------------------------------ specifications
WizardStart == WizardInit /\ UrlIdle /\ ClimateAbsent /\ SensorIdle /\ PlatformIdle
WizardSpec == WizardStart /\ [][WizardNext]_vars

UrlStart == UrlInit /\ WizardInit /\ ClimateAbsent /\ SensorIdle /\ PlatformIdle
UrlSpec == UrlStart /\ [][UrlNext]_vars

ClimateStart == ClimateInit /\ WizardInit /\ UrlIdle /\ SensorIdle /\ PlatformIdle
ClimateSpec == ClimateStart /\ [][ClimateNext]_vars

SensorStart == SensorInit /\ WizardInit /\ UrlIdle /\ ClimateAbsent /\ PlatformIdle
SensorSpec == SensorStart /\ [][SensorNext]_vars

PlatformStart == PlatformInit /\ WizardInit /\ UrlIdle /\ ClimateAbsent /\ SensorIdle
PlatformSpec == PlatformStart /\ [][PlatformNext]_vars

====
